---- MODULE Spec2Model ----
(***************************************************************************)
(* Model of the meeting-minutes service (src/server.js): the token cache,  *)
(* the call-level retrier retryWithBackoff, the transcript availability    *)
(* loop and the other steps of processMeetingJob, the Bull queue that      *)
(* delivers jobs to it, the process-wide metrics and the health endpoint.  *)
(*                                                                         *)
(* Actions are the stretches of code between two suspension points (an     *)
(* await of a network call or of a timer).  In Spec, SpecHealth and        *)
(* SpecRetry time is not a variable: a setTimeout is a pending wait whose  *)
(* duration is recorded, and the expiry of the cached token is an action   *)
(* that may happen at any moment.  SpecToken is getAccessToken alone with  *)
(* a clock and the cache's expiry times; SpecWebhook is the handler of     *)
(* POST /webhook/meeting-ended with the batches it can receive.            *)
(***************************************************************************)
EXTENDS Integers, Sequences, FiniteSets

(* ------------------------------ bounds --------------------------------- *)

\* Largest value of config.maxRetries explored.
MaxRetriesBound == 3

\* Largest value of the retries argument of retryWithBackoff explored.
MaxRetriesArg == 5

\* Number of jobs the webhook can enqueue.
NJobs == 2

\* Number of GET /health requests.
MaxHealth == 1

\* SpecToken: the clock runs for MaxClock seconds in steps of ClockStep.
MaxClock == 4000

ClockStep == 100

\* SpecWebhook: number of POST /webhook/meeting-ended requests, and the
\* largest number of notifications in one request.
MaxWebhooks == 1

MaxBatch == 2

\* Transcript lengths are taken up to MaxExtra code units from 0 and from the
\* limit, on both sides of it.
MaxExtra == 20

\* Jobs enqueued while the process is stopped and started (SpecShutdown).
MaxShutdownJobs == 1

(* ------------------------- program constants --------------------------- *)

\* A value that is absent in JavaScript (undefined).
Undefined == "undefined"

\* The status of an error that carries none (the property is undefined).
NoStatus == 0

\* HTTP statuses a failing call can carry.
Statuses == {400, 404, 429, 499, 500, 503}

\* const maxTranscriptRetries = 10
maxTranscriptRetries == 10

\* Math.min(30000 * retryCount, 300000)
PollUnit == 30000

PollCap == 300000

\* The delay argument of every retryWithBackoff call of the processor.
GraphDelay == 2000

\* config.retryDelay, the delay of the queue's backoff option (default).
RetryDelay == 60000

\* tokenCache.get(cacheKey) found nothing.
NoToken == 0

\* No job is being processed.
NoJob == 0

JobIds == 1 .. NJobs

HealthIds == 1 .. MaxHealth

WebhookIds == 1 .. MaxWebhooks

VARIABLES
    maxRetries, \* config.maxRetries
    jobs,       \* the queue: job id -> state, attemptsMade, deliveries, delay
    active,     \* the job the worker is processing, or NoJob
    att,        \* frame of the current (or last) processMeetingJob call
    rt,         \* frame of the running retryWithBackoff call
    tokenCache, \* the token under 'graph_token', or NoToken
    hc,         \* GET /health requests: id -> pc, req, token
    metrics,    \* the process-wide counters
    clock,      \* SpecToken: Date.now(), in seconds
    cacheData,  \* SpecToken: the cache's record for 'graph_token' (value, expiry)
    tc,         \* SpecToken: frame of the current (or last) getAccessToken call
    wh,         \* SpecWebhook: POST /webhook/meeting-ended requests: id -> frame
    proc,       \* SpecShutdown: the server process (running, closing, ...)
    gen         \* SpecGenerate: frame of a generateMeetingMinutes call

\* The variables of the token cache seen with its clock (SpecToken).
tokenVars == <<clock, cacheData, tc>>

vars ==
    <<maxRetries, jobs, active, att, rt, tokenCache, hc, metrics, tokenVars,
      wh, proc, gen>>

\* Everything but the retrier frame.
serviceVars ==
    <<maxRetries, jobs, active, att, tokenCache, hc, metrics, tokenVars, wh,
      proc, gen>>

\* Everything but the token cache seen with its clock.
processingVars ==
    <<maxRetries, jobs, active, att, rt, tokenCache, hc, metrics, wh, proc,
      gen>>

(* ------------------------------ errors --------------------------------- *)

\* An axios error: the status is in error.response.status.  seq is the
\* ordinal of the invocation of fn that threw it (object identity).
AxiosError(s, n) ==
    [name |-> "AxiosError", response |-> s, statusCode |-> NoStatus, seq |-> n]

\* A Graph client error: the status is in error.statusCode, and the error
\* has no response property.
GraphError(s, n) ==
    [name |-> "GraphError", response |-> NoStatus, statusCode |-> s, seq |-> n]

\* A failure with no status at all (connection reset, timeout).
NetworkError(n) ==
    [name |-> "NetworkError", response |-> NoStatus, statusCode |-> NoStatus,
     seq |-> n]

\* new Error(message): a plain error, with neither response nor statusCode.
PlainError(message) ==
    [name |-> message, response |-> NoStatus, statusCode |-> NoStatus, seq |-> 0]

\* Every error the n-th invocation of a wrapped function can throw.
ErrorsOf(n) ==
    {AxiosError(s, n) : s \in Statuses} \cup {GraphError(s, n) : s \in Statuses}
        \cup {NetworkError(n)}

\* No error was caught.
NoError == PlainError("none")

(* ------------------------- retryWithBackoff ---------------------------- *)

RECURSIVE Pow2(_)
Pow2(n) == IF n <= 0 THEN 1 ELSE 2 * Pow2(n - 1)

\* A faulty variant: every status from 400 up counts as non-retryable.
IsNonRetryableAnyStatus(error) ==
    /\ error.response # NoStatus
    /\ error.response >= 400

\* error.response?.status >= 400 && ... < 500 && ... !== 429
\* (a comparison with undefined is false)
IsNonRetryable(error) ==
    /\ error.response # NoStatus
    /\ error.response >= 400
    /\ error.response < 500
    /\ error.response # 429

\* A faulty variant: linear instead of exponential growth.
WaitTimeLinear(delay, i) == delay * (i + 1)

\* const waitTime = delay * Math.pow(2, i)
WaitTime(delay, i) == delay * Pow2(i)

\* const isLastAttempt = i === retries - 1
IsLastAttempt(i, retries) == i = retries - 1

\* No retryWithBackoff call is running.
NoRetry ==
    [retries |-> 0, delay |-> 0, i |-> 0, calls |-> 0, waits |-> <<>>,
     status |-> "none", error |-> NoError, result |-> Undefined]

\* Entering the loop: for (let i = 0; i < retries; i++) { try { await fn() ...
\* With retries <= 0 the body never runs and the function returns undefined.
RetryEnter(retries, delay) ==
    IF 0 < retries
    THEN [NoRetry EXCEPT !.retries = retries, !.delay = delay,
                         !.calls = 1, !.status = "calling"]
    ELSE [NoRetry EXCEPT !.retries = retries, !.delay = delay,
                         !.status = "returned"]

\* fn() resolved: return await fn()
RetryOnSuccess(r, value) == [r EXCEPT !.status = "returned", !.result = value]

\* A faulty variant: the error caught before this one is rethrown.
RethrownStale(r, error) == IF r.error = NoError THEN error ELSE r.error

\* Which error is rethrown when the attempts are exhausted: throw error
Rethrown(r, error) == error

\* fn() rejected: the catch block.
RetryOnError(r, error) ==
    IF IsLastAttempt(r.i, r.retries)
    THEN [r EXCEPT !.status = "thrown", !.error = Rethrown(r, error)]
    ELSE IF IsNonRetryable(error)
    THEN [r EXCEPT !.status = "thrown", !.error = error]
    ELSE [r EXCEPT !.status = "waiting", !.error = error,
                   !.waits = Append(@, WaitTime(r.delay, r.i))]

\* The backoff timer fired: i++, the loop condition, the next fn().
RetryOnTimer(r) ==
    IF r.i + 1 < r.retries
    THEN [r EXCEPT !.i = @ + 1, !.calls = @ + 1, !.status = "calling"]
    ELSE [r EXCEPT !.i = @ + 1, !.status = "returned", !.result = Undefined]

(* ------------------------------ the queue ------------------------------ *)

\* The payload of a job: { meetingId, chatId, userId, correlationId }, and
\* the request and the position in its batch of the notification the job was
\* made from.
JobData(n, correlationId, w, k) ==
    [meetingId |-> n.meetingId, chatId |-> n.chatId, userId |-> n.userId,
     correlationId |-> correlationId, from |-> <<w, k>>]

\* The payload of a job that does not exist.
NoData ==
    [meetingId |-> Undefined, chatId |-> Undefined, userId |-> Undefined,
     correlationId |-> 0, from |-> <<0, 0>>]

\* A job the webhook has not enqueued yet.
AbsentJob ==
    [state |-> "Absent", attemptsMade |-> 0, deliveries |-> 0, delay |-> 0,
     stalled |-> 0, posts |-> 0, data |-> NoData]

\* meetingQueue.add(data): the queue gives the job the next id.
NextJobId(q) == Cardinality({j \in JobIds : q[j].state # "Absent"}) + 1

QueueAdd(q, data) ==
    [q EXCEPT ![NextJobId(q)] = [AbsentJob EXCEPT !.state = "Queued",
                                                 !.data = data]]

\* A faulty variant: the same delay after every failure (type 'fixed').
JobBackoffFixed(n) == RetryDelay

\* backoff: { type: 'exponential', delay: config.retryDelay }: the delay the
\* queue library's built-in exponential strategy gives a job that has failed
\* n times.
JobBackoff(n) == (Pow2(n) - 1) * RetryDelay

\* maxRetries: parseInt(process.env.MAX_RETRIES) || 5
DefaultMaxRetries == 5

\* defaultJobOptions: { attempts: config.maxRetries, ... }: the limit of the
\* queue's deliveries of a job.
QueueAttempts == maxRetries

\* A faulty variant: the job is retried however often it has failed.
QueueOnFailedAlwaysRetry(job) ==
    [job EXCEPT !.attemptsMade = @ + 1, !.state = "Queued",
                !.delay = JobBackoff(job.attemptsMade + 1)]

\* A faulty variant: the job is given up one attempt early.
QueueOnFailedOffByOne(job) ==
    IF job.attemptsMade + 2 < maxRetries
    THEN [job EXCEPT !.attemptsMade = @ + 1, !.state = "Queued",
                     !.delay = JobBackoff(job.attemptsMade + 1)]
    ELSE [job EXCEPT !.attemptsMade = @ + 1, !.state = "Failed"]

\* The queue's decision after the processor threw: attempts is
\* config.maxRetries, and a job is retried while attemptsMade < attempts.
QueueOnFailed(job) ==
    IF job.attemptsMade + 1 < maxRetries
    THEN [job EXCEPT !.attemptsMade = @ + 1, !.state = "Queued",
                     !.delay = JobBackoff(job.attemptsMade + 1)]
    ELSE [job EXCEPT !.attemptsMade = @ + 1, !.state = "Failed"]

\* The queue's decision after the processor returned (removeOnComplete).
QueueOnCompleted(job) == [job EXCEPT !.state = "Succeeded"]

\* The queue is constructed without settings, so the library's default
\* holds: a stalled job is processed again at most once.
MaxStalledCount == 1

\* The queue's decision for an active job whose worker is gone (the job's
\* lock was not renewed): back to the wait list, or, once it has stalled more
\* than MaxStalledCount times, failed without another delivery.
QueueOnStalled(job) ==
    IF job.stalled + 1 > MaxStalledCount
    THEN [job EXCEPT !.stalled = @ + 1, !.state = "Failed"]
    ELSE [job EXCEPT !.stalled = @ + 1, !.state = "Queued"]

(* ----------------------- the webhook notifications --------------------- *)

\* config.webhookSecret
WebhookSecret == "secret"

\* A change notification, reduced to what the handler reads: the three
\* values it extracts from resourceData (Undefined when neither of the two
\* places it looks in has one) and clientState.
Notification(m, c, u, cs) ==
    [meetingId |-> m, chatId |-> c, userId |-> u, clientState |-> cs]

\* Notifications a request can carry: complete (the values found in the
\* first or in the second place the handler looks in) with the right and
\* with a wrong clientState, one of the three values missing, and no
\* resourceData.
Notifications ==
    {Notification("m", "c", "u", WebhookSecret),
     Notification("m2", "c2", "u2", WebhookSecret),
     Notification("m", "c", "u", "other"),
     Notification(Undefined, "c", "u", WebhookSecret),
     Notification("m", Undefined, "u", WebhookSecret),
     Notification("m", "c", Undefined, WebhookSecret),
     Notification(Undefined, Undefined, Undefined, WebhookSecret)}

\* req.body.value || []: every batch of at most MaxBatch notifications.
Batches ==
    UNION {[1 .. n -> Notifications] : n \in 0 .. MaxBatch}

\* if (!meetingId || !chatId || !userId) ... continue
HasRequiredFields(n) ==
    n.meetingId # Undefined /\ n.chatId # Undefined /\ n.userId # Undefined

\* validateWebhookSignature(req): the clientState of the first notification
\* is the configured secret.  The handler's call of it is commented out.
ValidateWebhookSignature(batch) ==
    Len(batch) > 0 /\ batch[1].clientState = WebhookSecret

\* No response has been sent.
NoResponse == 0

\* A request that has not arrived.
NoRequest ==
    [pc |-> "idle", batch |-> <<>>, i |-> 0, correlationId |-> 0,
     added |-> <<>>, status |-> NoResponse]

\* A faulty variant: a notification with a missing value ends the loop.
RECURSIVE WebhookLoopBreaks(_, _)
WebhookLoopBreaks(f, k) ==
    IF k > Len(f.batch)
    THEN [f EXCEPT !.pc = "responded", !.i = k, !.status = 202]
    ELSE IF HasRequiredFields(f.batch[k])
    THEN [f EXCEPT !.pc = "adding", !.i = k]
    ELSE [f EXCEPT !.pc = "responded", !.i = k, !.status = 202]

\* for (const notification of notifications) from the k-th notification on,
\* up to the next await meetingQueue.add(...) or, past the last
\* notification, res.status(202).
RECURSIVE WebhookLoop(_, _)
WebhookLoop(f, k) ==
    IF k > Len(f.batch)
    THEN [f EXCEPT !.pc = "responded", !.i = k, !.status = 202]
    ELSE IF HasRequiredFields(f.batch[k])
    THEN [f EXCEPT !.pc = "adding", !.i = k]
    ELSE WebhookLoop(f, k + 1)

(* --------------------------- the token cache --------------------------- *)

\* response.data.access_token: tokens are opaque strings, named here after
\* the caller whose request produced them (the processor, or a health check).
JobToken == 1

HealthToken(h) == 1 + h

\* response.data.expires_in || 3600
DefaultExpiresIn == 3600

\* expiresIn - 300
ExpiryBuffer == 300

\* Date.now() when the process starts, in seconds: any time far from 0, the
\* value that marks a record without expiry.
StartTime == 1000

\* The response carries no expires_in.
NoExpiresIn == -1

\* Values of expires_in, in seconds: missing, zero, inside the buffer, the
\* buffer itself, above it, and the usual hour.
ExpiresInValues == {NoExpiresIn, 0, 200, 300, 600, 3600}

\* A token in SpecToken: an opaque string, named here by the time the token
\* endpoint issued it and the expires_in that came with it.
Token(at, e) == [issuedAt |-> at, expires_in |-> e]

\* No token.
Unissued == Token(-1, NoExpiresIn)

\* The cache has no record under the key.
NoEntry == [present |-> FALSE, v |-> Unissued, t |-> 0]

\* const expiresIn = response.data.expires_in || 3600
\* (undefined and 0 are falsy)
ExpiresIn(e) == IF e = NoExpiresIn \/ e = 0 THEN DefaultExpiresIn ELSE e

\* tokenCache.set(key, value, ttl) at time now: the cache library keeps the
\* value with the time t it lives until; a ttl of 0 means no expiry (t = 0),
\* any other number gives t = now + ttl.  (A ttl that is not a number would
\* give the cache's stdTTL; expiresIn - 300 always is one.)
CacheSet(value, ttl, now) ==
    [present |-> TRUE, v |-> value, t |-> IF ttl = 0 THEN 0 ELSE now + ttl]

\* Whether tokenCache.get(key) at time now finds a live record: a record is
\* expired when its t is not 0 and lies before now.
CacheHit(entry, now) ==
    /\ entry.present
    /\ ~(entry.t # 0 /\ entry.t < now)

\* No getAccessToken call has been made yet.
NoCall ==
    [pc |-> "idle", at |-> 0, cached |-> FALSE, requests |-> 0,
     result |-> Unissued, prior |-> Unissued, error |-> NoError]

\* The token of the most recent refresh when call c is over.
LastRefreshed(c) == IF c.pc = "returned" THEN c.result ELSE c.prior

(* ------------------------ the transcript's text ------------------------ *)

\* transcriptText.substring(0, 100000): "Limit to 100k chars"
TranscriptLimit == 100000

\* A string made of the code units [from, to) of the fetched transcript.
Text(from, to) == [from |-> from, to |-> to]

\* No string.
NoText == Text(-1, -1)

\* text.length
Length(t) == t.to - t.from

\* The lengths of the transcripts the Graph API returns.
TranscriptLengths ==
    (0 .. MaxExtra)
        \cup ((TranscriptLimit - MaxExtra) .. (TranscriptLimit + MaxExtra))

\* String.prototype.substring clamps an index to 0 .. length.
Clamp(n, len) == IF n < 0 THEN 0 ELSE IF n > len THEN len ELSE n

\* A faulty variant: the last characters of the string, as
\* slice(-100000) gives them.
SubstringFromEnd(t, start, end) ==
    Text(t.to - Clamp(end, Length(t)), t.to)

\* String.prototype.substring(start, end): the indices are clamped and, if
\* start > end, swapped.
Substring(t, start, end) ==
    LET a == Clamp(start, Length(t))
        b == Clamp(end, Length(t))
    IN  Text(t.from + (IF a < b THEN a ELSE b),
             t.from + (IF a < b THEN b ELSE a))

\* No generateMeetingMinutes call yet.
NoGeneration ==
    [pc |-> "idle", fetched |-> "none", transcript |-> NoText,
     passed |-> NoText, error |-> NoError]

(* ---------------------------- the processor ---------------------------- *)

\* No processMeetingJob call has run yet.
NoAttempt ==
    [job |-> NoJob, data |-> NoData, passed |-> {},
     pc |-> "idle", step |-> "none", ran |-> {},
     transcripts |-> <<>>, retryCount |-> 0, pollWaits |-> <<>>,
     listings |-> 0, lookups |-> 0, requests |-> 0, token |-> NoToken,
     meeting |-> Undefined, transcriptContent |-> Undefined,
     minutes |-> Undefined, error |-> NoError]

\* A faulty variant: a re-delivered job goes on polling where the failed
\* attempt stopped.
NewAttemptKeepsPollCount(j) ==
    [NoAttempt EXCEPT !.job = j, !.data = jobs[j].data,
                      !.retryCount = IF att.job = j THEN att.retryCount ELSE 0]

\* A faulty variant: a re-delivered job is processed under a fresh
\* correlation id.
NewAttemptFreshCorrelationId(j) ==
    [NoAttempt EXCEPT !.job = j,
                      !.data = [jobs[j].data EXCEPT
                                    !.correlationId = @ + jobs[j].deliveries]]

\* The frame of a fresh processMeetingJob(job) call:
\* const { meetingId, chatId, userId, correlationId } = job.data
NewAttempt(j) == [NoAttempt EXCEPT !.job = j, !.data = jobs[j].data]

\* What a transcript listing can return: transcripts.value || []
Listings == {<<>>, <<"t1">>}

\* Errors the Graph client throws in the processor (a 4xx and a 5xx).
GraphErrors(n) == {GraphError(404, n), GraphError(503, n)}

\* A faulty variant: the wait doubles instead of growing linearly.
PollWaitExponential(retryCount) == PollUnit * Pow2(retryCount - 1)

\* const waitTime = Math.min(30000 * retryCount, 300000)
PollWait(retryCount) ==
    IF PollUnit * retryCount < PollCap THEN PollUnit * retryCount ELSE PollCap

\* Date.now() - startTime of the attempt that completes job j: the jobs take
\* different times, none a multiple of another.
ProcessingTimeOf(j) == 1000 + j * j

RECURSIVE Gcd(_, _)
Gcd(a, b) == IF b = 0 THEN a ELSE Gcd(b, a % b)

\* The number num / den (a JavaScript number, kept exact) in lowest terms.
Rational(num, den) ==
    [num |-> num \div Gcd(num, den), den |-> den \div Gcd(num, den)]

\* const metrics = { totalProcessed: 0, ..., averageProcessingTime: 0 }
InitMetrics ==
    [totalProcessed |-> 0, totalFailed |-> 0, totalSuccess |-> 0,
     averageProcessingTime |-> Rational(0, 1)]

\* A faulty variant: the mean of the old average and the new time.
RunningMeanHalved(avg, n, t) == Rational(avg.num + t * avg.den, avg.den * 2)

\* (averageProcessingTime * (totalSuccess - 1) + processingTime) / totalSuccess
\* with n the incremented totalSuccess.
RunningMean(avg, n, t) ==
    Rational(avg.num * (n - 1) + t * avg.den, avg.den * n)

\* A faulty variant: the catch block does not rethrow, so the queue sees the
\* processor return.
AttemptFailsSwallowed(a, error, r) ==
    /\ metrics' = [metrics EXCEPT !.totalFailed = @ + 1]
    /\ att' = [a EXCEPT !.pc = "failed", !.error = error]
    /\ rt' = r
    /\ jobs' = [jobs EXCEPT ![active] = QueueOnCompleted(@)]
    /\ active' = NoJob

\* A faulty variant: the counter is written back from a value read before
\* other attempts ended, so their increments are lost.
AttemptFailsStaleCounter(a, error, r) ==
    /\ metrics' = [metrics EXCEPT
                        !.totalFailed = jobs[active].attemptsMade + 1]
    /\ att' = [a EXCEPT !.pc = "failed", !.error = error]
    /\ rt' = r
    /\ jobs' = [jobs EXCEPT ![active] = QueueOnFailed(@)]
    /\ active' = NoJob

\* The catch block of processMeetingJob, and the queue taking the failure.
AttemptFails(a, error, r) ==
    /\ metrics' = [metrics EXCEPT !.totalFailed = @ + 1]
    /\ att' = [a EXCEPT !.pc = "failed", !.error = error]
    /\ rt' = r
    /\ jobs' = [jobs EXCEPT ![active] = QueueOnFailed(@)]
    /\ active' = NoJob

\* A faulty variant: a step after the post throws, so the attempt fails
\* although the minutes were posted.
AttemptSucceedsThenThrows(a, r) ==
    /\ metrics' = [metrics EXCEPT !.totalFailed = @ + 1]
    /\ att' = [a EXCEPT !.pc = "failed",
                        !.error = PlainError("after the post")]
    /\ rt' = r
    /\ jobs' = [jobs EXCEPT ![active] =
                    [QueueOnFailed(@) EXCEPT !.posts = @ + 1]]
    /\ active' = NoJob

\* The end of the try block of processMeetingJob, and the queue taking the
\* result.  (posts counts the postMinutesToTeams calls that returned.)
AttemptSucceeds(a, r) ==
    /\ metrics' = [metrics EXCEPT
            !.totalProcessed = @ + 1,
            !.totalSuccess = @ + 1,
            !.averageProcessingTime =
                RunningMean(@, metrics.totalSuccess + 1, ProcessingTimeOf(a.job))]
    /\ att' = [a EXCEPT !.pc = "done"]
    /\ rt' = r
    /\ jobs' = [jobs EXCEPT ![active] =
                    [QueueOnCompleted(@) EXCEPT !.posts = @ + 1]]
    /\ active' = NoJob

\* A step of the processor that starts with getAccessToken: on a cache hit
\* the step's retryWithBackoff call starts at once, on a miss the token
\* request is sent and the processor is suspended on it.  The correlationId
\* of the attempt is passed to getAccessToken and to the step's function.
GetTokenThenCall(a, step) ==
    IF tokenCache # NoToken
    THEN /\ att' = [a EXCEPT !.pc = "call", !.step = step,
                             !.ran = @ \cup {step}, !.lookups = @ + 1,
                             !.token = tokenCache,
                             !.passed = @ \cup {a.data.correlationId}]
         /\ rt' = RetryEnter(maxRetries, GraphDelay)
    ELSE /\ att' = [a EXCEPT !.pc = "token", !.step = step,
                             !.ran = @ \cup {step}, !.lookups = @ + 1,
                             !.requests = 1,
                             !.passed = @ \cup {a.data.correlationId}]
         /\ rt' = NoRetry

\* The same for a step inside a running attempt.
JobGetAccessToken(a, step) ==
    /\ GetTokenThenCall(a, step)
    /\ UNCHANGED <<jobs, active, metrics>>

\* throw new Error('No transcripts available after maximum retries')
NoTranscriptsError ==
    PlainError("No transcripts available after maximum retries")

\* throw new Error(`Failed to generate meeting minutes: ${error.message}`)
GenerationError == PlainError("Failed to generate meeting minutes")

\* A faulty variant: the check that follows the loop is missing, so an
\* exhausted loop goes on to fetch a transcript.
PollLoopNoCheck(a, r) ==
    IF Len(a.transcripts) = 0 /\ a.retryCount < maxTranscriptRetries
    THEN JobGetAccessToken(a, "List")
    ELSE JobGetAccessToken(a, "Fetch")

\* A faulty variant: the loop condition lets an eleventh listing through.
PollLoopOffByOne(a, r) ==
    IF Len(a.transcripts) = 0 /\ a.retryCount <= maxTranscriptRetries
    THEN JobGetAccessToken(a, "List")
    ELSE IF Len(a.transcripts) = 0
    THEN AttemptFails(a, NoTranscriptsError, r)
    ELSE JobGetAccessToken(a, "Fetch")

\* A faulty variant: an exhausted loop starts over instead of throwing.
PollLoopStartsOver(a, r) ==
    IF Len(a.transcripts) = 0 /\ a.retryCount < maxTranscriptRetries
    THEN JobGetAccessToken(a, "List")
    ELSE IF Len(a.transcripts) = 0
    THEN JobGetAccessToken([a EXCEPT !.retryCount = 0, !.listings = 0,
                                     !.pollWaits = <<>>, !.lookups = 1],
                           "List")
    ELSE JobGetAccessToken(a, "Fetch")

\* while (transcripts.length === 0 && retryCount < maxTranscriptRetries),
\* and what follows the loop.
PollLoop(a, r) ==
    IF Len(a.transcripts) = 0 /\ a.retryCount < maxTranscriptRetries
    THEN JobGetAccessToken(a, "List")
    ELSE IF Len(a.transcripts) = 0
    THEN AttemptFails(a, NoTranscriptsError, r)
    ELSE JobGetAccessToken(a, "Fetch")

\* A faulty variant: the loop waits whatever the listing returned.
AfterListingAlwaysWaits(a, r) ==
    /\ att' = [a EXCEPT !.pc = "pollWait", !.retryCount = @ + 1,
                        !.pollWaits = Append(@, PollWait(a.retryCount + 1))]
    /\ rt' = r
    /\ UNCHANGED <<jobs, active, metrics>>

\* The body of the loop after the listing returned.
AfterListing(a, r) ==
    IF Len(a.transcripts) = 0
    THEN /\ att' = [a EXCEPT !.pc = "pollWait", !.retryCount = @ + 1,
                             !.pollWaits = Append(@, PollWait(a.retryCount + 1))]
         /\ rt' = r
         /\ UNCHANGED <<jobs, active, metrics>>
    ELSE PollLoop(a, r)

(* ------------------------------- actions ------------------------------- *)

\* A POST /webhook/meeting-ended with one complete notification, seen from
\* the queue: meetingQueue.add(...) gives the job the next id.  (The handler
\* itself is modelled in SpecWebhook.)
Enqueue(j) ==
    /\ proc = "running"
    /\ jobs[j].state = "Absent"
    /\ j = NextJobId(jobs)
    /\ jobs' = QueueAdd(jobs, JobData(Notification("m", "c", "u", WebhookSecret),
                                      j, j, 1))
    /\ UNCHANGED <<maxRetries, tokenVars, wh, proc, gen, active, att, rt, tokenCache, hc, metrics>>

\* The worker takes a queued job and calls processMeetingJob, which runs up
\* to its first suspension point.
Deliver(j) ==
    /\ proc = "running"
    /\ active = NoJob
    /\ jobs[j].state = "Queued"
    /\ GetTokenThenCall(NewAttempt(j), "Meeting")
    /\ active' = j
    /\ jobs' = [jobs EXCEPT ![j].state = "InProgress", ![j].deliveries = @ + 1]
    /\ UNCHANGED <<maxRetries, tokenVars, wh, proc, gen, tokenCache, hc, metrics>>

\* The token endpoint answered the processor's request: the token is cached
\* and the step's retryWithBackoff call starts.
JobTokenOk ==
    /\ att.pc = "token"
    /\ tokenCache' = JobToken
    /\ att' = [att EXCEPT !.pc = "call", !.token = JobToken, !.requests = 0]
    /\ rt' = RetryEnter(maxRetries, GraphDelay)
    /\ UNCHANGED <<maxRetries, tokenVars, wh, proc, gen, jobs, active, hc, metrics>>

\* throw new Error(`Failed to get access token: ${error.message}`)
TokenError == PlainError("Failed to get access token")

\* A faulty variant: getAccessToken sends the request a second time before
\* it gives up.
JobTokenFailsAfterRetry ==
    /\ att.pc = "token"
    /\ IF att.requests < 2
       THEN /\ att' = [att EXCEPT !.requests = @ + 1]
            /\ UNCHANGED <<rt, jobs, active, metrics>>
       ELSE AttemptFails(att, TokenError, rt)
    /\ UNCHANGED <<maxRetries, tokenVars, wh, proc, gen, tokenCache, hc>>

\* The token request failed: getAccessToken throws, the attempt fails.
JobTokenFails ==
    /\ att.pc = "token"
    /\ AttemptFails(att, TokenError, rt)
    /\ UNCHANGED <<maxRetries, tokenVars, wh, proc, gen, tokenCache, hc>>

\* The Graph call of the current step resolved.
CallResolves ==
    /\ att.pc = "call"
    /\ rt.status = "calling"
    /\ \/ /\ att.step = "Meeting"
          /\ PollLoop([att EXCEPT !.meeting = "meeting"],
                      RetryOnSuccess(rt, "meeting"))
       \/ /\ att.step = "List"
          /\ \E v \in Listings :
                AfterListing([att EXCEPT !.transcripts = v,
                                         !.listings = @ + 1],
                             RetryOnSuccess(rt, "listing"))
       \/ /\ att.step = "Fetch"
          /\ att' = [att EXCEPT !.pc = "generate", !.step = "Generate",
                                !.ran = @ \cup {"Generate"},
                                !.passed = @ \cup {att.data.correlationId},
                                !.transcriptContent = "vtt"]
          /\ rt' = RetryOnSuccess(rt, "vtt")
          /\ UNCHANGED <<jobs, active, metrics>>
       \/ /\ att.step = "Post"
          /\ AttemptSucceeds(att, RetryOnSuccess(rt, Undefined))
    /\ UNCHANGED <<maxRetries, tokenVars, wh, proc, gen, tokenCache, hc>>

\* A faulty variant: a listing that errors uses up a poll.
CallRejectsCountsPoll ==
    /\ att.pc = "call"
    /\ rt.status = "calling"
    /\ \E e \in GraphErrors(rt.calls) :
          LET r == RetryOnError(rt, e) IN
          IF r.status = "thrown"
          THEN AttemptFails(att, r.error, r)
          ELSE /\ rt' = r
               /\ att' = [att EXCEPT !.retryCount =
                                IF att.step = "List" THEN @ + 1 ELSE @]
               /\ UNCHANGED <<jobs, active, metrics>>
    /\ UNCHANGED <<maxRetries, tokenVars, wh, proc, gen, tokenCache, hc>>

\* The Graph call of the current step rejected: the retrier's catch block.
CallRejects ==
    /\ att.pc = "call"
    /\ rt.status = "calling"
    /\ \E e \in GraphErrors(rt.calls) :
          LET r == RetryOnError(rt, e) IN
          IF r.status = "thrown"
          THEN AttemptFails(att, r.error, r)
          ELSE /\ rt' = r
               /\ UNCHANGED <<att, jobs, active, metrics>>
    /\ UNCHANGED <<maxRetries, tokenVars, wh, proc, gen, tokenCache, hc>>

\* The retrier's backoff timer fired.
CallBackoffElapses ==
    /\ att.pc = "call"
    /\ rt.status = "waiting"
    /\ rt' = RetryOnTimer(rt)
    /\ UNCHANGED serviceVars

\* The poll loop's timer fired.
PollWaitElapses ==
    /\ att.pc = "pollWait"
    /\ PollLoop(att, rt)
    /\ UNCHANGED <<maxRetries, tokenVars, wh, proc, gen, tokenCache, hc>>

\* The generation service answered: the document is formatted and
\* postMinutesToTeams is called.
GenerateResolves ==
    /\ att.pc = "generate"
    /\ JobGetAccessToken([att EXCEPT !.ran = @ \cup {"Format"},
                                     !.minutes = "minutes"], "Post")
    /\ UNCHANGED <<maxRetries, tokenVars, wh, proc, gen, tokenCache, hc>>

\* The generation call failed (it is not wrapped by the retrier).
GenerateRejects ==
    /\ att.pc = "generate"
    /\ AttemptFails(att, GenerationError, rt)
    /\ UNCHANGED <<maxRetries, tokenVars, wh, proc, gen, tokenCache, hc>>

\* The TTL of the cached token elapsed.
CacheExpires ==
    /\ tokenCache # NoToken
    /\ tokenCache' = NoToken
    /\ UNCHANGED <<maxRetries, tokenVars, wh, proc, gen, jobs, active, att, rt, hc, metrics>>

\* GET /health: getAccessToken('health-check') up to its suspension point.
HealthRequest(h) ==
    /\ hc[h].pc = "idle"
    /\ IF tokenCache # NoToken
       THEN /\ hc' = [hc EXCEPT ![h] = [pc |-> "healthy", token |-> tokenCache]]
       ELSE /\ hc' = [hc EXCEPT ![h] = [pc |-> "token", token |-> NoToken]]
    /\ UNCHANGED <<maxRetries, tokenVars, wh, proc, gen, jobs, active, att, rt, tokenCache, metrics>>

\* The token endpoint answered the health check's request.
HealthTokenOk(h) ==
    /\ hc[h].pc = "token"
    /\ tokenCache' = HealthToken(h)
    /\ hc' = [hc EXCEPT ![h].pc = "healthy", ![h].token = HealthToken(h)]
    /\ UNCHANGED <<maxRetries, tokenVars, wh, proc, gen, jobs, active, att, rt, metrics>>

\* The health check's token request failed: 503.
HealthTokenFails(h) ==
    /\ hc[h].pc = "token"
    /\ hc' = [hc EXCEPT ![h].pc = "unhealthy"]
    /\ UNCHANGED <<maxRetries, tokenVars, wh, proc, gen, jobs, active, att, rt, tokenCache, metrics>>

\* The token cache of a process that has just started, and no request yet.
InitTokenVars ==
    /\ clock = StartTime
    /\ cacheData = NoEntry
    /\ tc = NoCall
    /\ wh = [w \in WebhookIds |-> NoRequest]
    /\ proc = "running"
    /\ gen = NoGeneration

Init ==
    /\ InitTokenVars
    /\ maxRetries \in 1 .. MaxRetriesBound   \* RetryPolicy.maxAttempts >= 1
    /\ jobs = [j \in JobIds |-> AbsentJob]
    /\ active = NoJob
    /\ att = NoAttempt
    /\ rt = NoRetry
    /\ tokenCache = NoToken
    /\ hc = [h \in HealthIds |-> [pc |-> "idle", token |-> NoToken]]
    /\ metrics = InitMetrics

Next ==
    \/ \E j \in JobIds : Enqueue(j)
    \/ \E j \in JobIds : Deliver(j)
    \/ JobTokenOk
    \/ JobTokenFails
    \/ CallResolves
    \/ CallRejects
    \/ CallBackoffElapses
    \/ PollWaitElapses
    \/ GenerateResolves
    \/ GenerateRejects
    \/ CacheExpires

\* The queue, the worker and the token cache.
Spec == Init /\ [][Next]_vars

\* Every external call returns or fails, every timer fires, and the worker
\* takes a queued job when it is free.
Fairness ==
    /\ \A j \in JobIds : WF_vars(Deliver(j))
    /\ WF_vars(JobTokenOk \/ JobTokenFails)
    /\ WF_vars(CallResolves \/ CallRejects)
    /\ WF_vars(CallBackoffElapses)
    /\ WF_vars(PollWaitElapses)
    /\ WF_vars(GenerateResolves \/ GenerateRejects)

\* config.maxRetries = 2: a failed attempt is followed by one more.
InitLive == Init /\ maxRetries = 2

\* The queue and the worker under these assumptions.
SpecLive == InitLive /\ [][Next]_vars /\ Fairness

\* The same with GET /health requests arriving while jobs are processed.
NextHealth ==
    \/ Next
    \/ \E h \in HealthIds : HealthRequest(h)
    \/ \E h \in HealthIds : HealthTokenOk(h)
    \/ \E h \in HealthIds : HealthTokenFails(h)

SpecHealth == Init /\ [][NextHealth]_vars

(* ------------- getAccessToken with the clock (SpecToken) --------------- *)

\* A caller calls getAccessToken once the previous call is over (calls are
\* sequential): tokenCache.get, and on a miss the request to the endpoint.
\* An expired record is deleted by the get that finds it.
TokenCall ==
    /\ tc.pc \in {"idle", "returned", "thrown"}
    /\ IF CacheHit(cacheData, clock)
       THEN /\ tc' = [NoCall EXCEPT !.pc = "returned", !.at = clock,
                                    !.cached = TRUE, !.result = cacheData.v,
                                    !.prior = LastRefreshed(tc)]
            /\ UNCHANGED cacheData
       ELSE /\ tc' = [NoCall EXCEPT !.pc = "request", !.at = clock,
                                    !.requests = 1,
                                    !.prior = LastRefreshed(tc)]
            /\ cacheData' = NoEntry
    /\ UNCHANGED <<clock, processingVars>>

\* The token endpoint answered: the token is cached for expiresIn - 300
\* seconds and returned.
TokenResponse ==
    /\ tc.pc = "request"
    /\ \E e \in ExpiresInValues :
          /\ cacheData' = CacheSet(Token(clock, e),
                                   ExpiresIn(e) - ExpiryBuffer, clock)
          /\ tc' = [tc EXCEPT !.pc = "returned", !.result = Token(clock, e)]
    /\ UNCHANGED <<clock, processingVars>>

\* The request failed: getAccessToken throws.
TokenRequestFails ==
    /\ tc.pc = "request"
    /\ tc' = [tc EXCEPT !.pc = "thrown", !.error = TokenError]
    /\ UNCHANGED <<clock, cacheData, processingVars>>

\* Time passes.
ClockAdvances ==
    /\ clock + ClockStep <= StartTime + MaxClock
    /\ clock' = clock + ClockStep
    /\ UNCHANGED <<cacheData, tc, processingVars>>

NextToken ==
    \/ TokenCall
    \/ TokenResponse
    \/ TokenRequestFails
    \/ ClockAdvances

InitToken == Init /\ maxRetries = 1

SpecToken == InitToken /\ [][NextToken]_vars

(* ------------- POST /webhook/meeting-ended (SpecWebhook) --------------- *)

\* Everything the webhook handler leaves alone.
nonWebhookVars ==
    <<maxRetries, active, att, rt, tokenCache, hc, metrics, tokenVars, proc,
      gen>>

\* A request arrives: the handler draws a correlation id and runs up to its
\* first suspension point.
WebhookPost(w) ==
    /\ wh[w].pc = "idle"
    /\ \E batch \in Batches :
          wh' = [wh EXCEPT ![w] =
                    WebhookLoop([NoRequest EXCEPT !.batch = batch,
                                                  !.correlationId = w], 1)]
    /\ UNCHANGED <<jobs, nonWebhookVars>>

\* meetingQueue.add(...) resolved: the job is in the queue and the loop goes
\* on with the next notification.
WebhookAddResolves(w) ==
    /\ wh[w].pc = "adding"
    /\ NextJobId(jobs) \in JobIds
    /\ jobs' = QueueAdd(jobs, JobData(wh[w].batch[wh[w].i],
                                      wh[w].correlationId, w, wh[w].i))
    /\ wh' = [wh EXCEPT ![w] =
                 WebhookLoop([wh[w] EXCEPT !.added = Append(@, NextJobId(jobs))],
                             wh[w].i + 1)]
    /\ UNCHANGED nonWebhookVars

\* A faulty variant: a rejected add is skipped and the loop goes on.
WebhookAddRejectsSkipped(w) ==
    /\ wh[w].pc = "adding"
    /\ wh' = [wh EXCEPT ![w] = WebhookLoop(wh[w], wh[w].i + 1)]
    /\ UNCHANGED <<jobs, nonWebhookVars>>

\* A faulty variant: a rejected add takes the jobs the request has already
\* enqueued out of the queue again.
WebhookAddRejectsRollsBack(w) ==
    /\ wh[w].pc = "adding"
    /\ wh' = [wh EXCEPT ![w].pc = "responded", ![w].status = 500]
    /\ jobs' = [j \in JobIds |->
                    IF jobs[j].state # "Absent" /\ jobs[j].data.from[1] = w
                    THEN AbsentJob ELSE jobs[j]]
    /\ UNCHANGED nonWebhookVars

\* meetingQueue.add(...) rejected: the catch block answers 500.
WebhookAddRejects(w) ==
    /\ wh[w].pc = "adding"
    /\ wh' = [wh EXCEPT ![w].pc = "responded", ![w].status = 500]
    /\ UNCHANGED <<jobs, nonWebhookVars>>

NextWebhook ==
    \/ \E w \in WebhookIds : WebhookPost(w)
    \/ \E w \in WebhookIds : WebhookAddResolves(w)
    \/ \E w \in WebhookIds : WebhookAddRejects(w)

InitWebhook == Init /\ maxRetries = 1

SpecWebhook == InitWebhook /\ [][NextWebhook]_vars

(* ------------------------ shutdown and crash --------------------------- *)

\* What dies with the process: the frames, the token cache, the metrics.
MemoryLost ==
    /\ active' = NoJob
    /\ att' = NoAttempt
    /\ rt' = NoRetry
    /\ tokenCache' = NoToken
    /\ metrics' = InitMetrics

\* process.on('SIGTERM' | 'SIGINT'): the handler calls meetingQueue.close(),
\* which stops the worker taking jobs and resolves once the active job's
\* attempt is over.
Sigterm ==
    /\ proc = "running"
    /\ proc' = "closing"
    /\ UNCHANGED <<maxRetries, tokenVars, wh, gen, jobs, active, att, rt,
                   tokenCache, hc, metrics>>

\* A faulty variant: the handler exits without awaiting close().
ShutdownExitNoWait ==
    /\ proc = "closing"
    /\ proc' = "exited"
    /\ MemoryLost
    /\ UNCHANGED <<maxRetries, tokenVars, wh, gen, jobs, hc>>

\* await meetingQueue.close() resolved: process.exit(0).
ShutdownExit ==
    /\ proc = "closing"
    /\ active = NoJob
    /\ proc' = "exited"
    /\ MemoryLost
    /\ UNCHANGED <<maxRetries, tokenVars, wh, gen, jobs, hc>>

\* The process dies (an uncaught exception, a kill): the job it was
\* processing stays in the queue's active list.
Crash ==
    /\ proc \in {"running", "closing"}
    /\ proc' = "crashed"
    /\ MemoryLost
    /\ UNCHANGED <<maxRetries, tokenVars, wh, gen, jobs, hc>>

\* The server is started again on the same queue.
Restart ==
    /\ proc \in {"exited", "crashed"}
    /\ proc' = "running"
    /\ UNCHANGED <<maxRetries, tokenVars, wh, gen, jobs, active, att, rt,
                   tokenCache, hc, metrics>>

\* The queue's stalled-jobs check finds an active job nobody is processing
\* (the 'stalled' listener only logs it).
StalledCheck(j) ==
    /\ proc = "running"
    /\ jobs[j].state = "InProgress"
    /\ active # j
    /\ jobs' = [jobs EXCEPT ![j] = QueueOnStalled(@)]
    /\ UNCHANGED <<maxRetries, tokenVars, wh, proc, gen, active, att, rt,
                   tokenCache, hc, metrics>>

NextShutdown ==
    \/ \E j \in 1 .. MaxShutdownJobs : Enqueue(j)
    \/ \E j \in JobIds : Deliver(j)
    \/ JobTokenOk
    \/ JobTokenFails
    \/ CallResolves
    \/ CallRejects
    \/ CallBackoffElapses
    \/ PollWaitElapses
    \/ GenerateResolves
    \/ GenerateRejects
    \/ CacheExpires
    \/ Sigterm
    \/ ShutdownExit
    \/ Crash
    \/ Restart
    \/ \E j \in JobIds : StalledCheck(j)

\* config.maxRetries = 2: a failed attempt is followed by one more.
InitShutdown == Init /\ maxRetries = 2

\* The queue and the worker with the process stopping and starting.
SpecShutdown == InitShutdown /\ [][NextShutdown]_vars

(* ------------------- generateMeetingMinutes alone ---------------------- *)

\* Everything but the generation frame.
nonGenerationVars ==
    <<maxRetries, jobs, active, att, rt, tokenCache, hc, metrics, tokenVars,
      wh, proc>>

\* getMeetingTranscript returned: the content is a string of some length, or
\* not a string at all (the code itself logs transcript?.length || 0).
TranscriptFetched ==
    /\ gen.pc = "idle"
    /\ \/ \E n \in TranscriptLengths :
             gen' = [NoGeneration EXCEPT !.pc = "fetched", !.fetched = "string",
                                         !.transcript = Text(0, n)]
       \/ gen' = [NoGeneration EXCEPT !.pc = "fetched", !.fetched = "undefined"]
    /\ UNCHANGED nonGenerationVars

\* generateMeetingMinutes(transcriptContent, ...) up to its suspension point:
\* the text is cut (outside the try block) and put into the request.
GenerateCall ==
    /\ gen.pc = "fetched"
    /\ IF gen.fetched = "string"
       THEN gen' = [gen EXCEPT !.pc = "requested",
                               !.passed = Substring(gen.transcript, 0,
                                                    TranscriptLimit)]
       ELSE gen' = [gen EXCEPT !.pc = "thrown",
                               !.error = PlainError("TypeError")]
    /\ UNCHANGED nonGenerationVars

\* The generation service answered.
GenerationAnswers ==
    /\ gen.pc = "requested"
    /\ gen' = [gen EXCEPT !.pc = "returned"]
    /\ UNCHANGED nonGenerationVars

\* The generation request failed: the catch block rethrows.
GenerationFails ==
    /\ gen.pc = "requested"
    /\ gen' = [gen EXCEPT !.pc = "thrown", !.error = GenerationError]
    /\ UNCHANGED nonGenerationVars

NextGenerate ==
    \/ TranscriptFetched
    \/ GenerateCall
    \/ GenerationAnswers
    \/ GenerationFails

InitGenerate == Init /\ maxRetries = 1

\* One generateMeetingMinutes call on a fetched transcript.
SpecGenerate == InitGenerate /\ [][NextGenerate]_vars

(* --------------- retryWithBackoff on its own (SpecRetry) --------------- *)

\* Values of the retries argument: config.maxRetries is parseInt(...) || 5,
\* any integer but 0; 0 can be passed explicitly.
RetriesArgs == (-1) .. MaxRetriesArg

DelayArgs == {1000, 2000}

InitRetry ==
    /\ \E n \in RetriesArgs, d \in DelayArgs : rt = RetryEnter(n, d)
    /\ InitTokenVars
    /\ maxRetries = 1
    /\ jobs = [j \in JobIds |-> AbsentJob]
    /\ active = NoJob
    /\ att = NoAttempt
    /\ tokenCache = NoToken
    /\ hc = [h \in HealthIds |-> [pc |-> "idle", token |-> NoToken]]
    /\ metrics = InitMetrics

FnResolves ==
    /\ rt.status = "calling"
    /\ rt' = RetryOnSuccess(rt, "value")
    /\ UNCHANGED serviceVars

FnRejects ==
    /\ rt.status = "calling"
    /\ \E e \in ErrorsOf(rt.calls) : rt' = RetryOnError(rt, e)
    /\ UNCHANGED serviceVars

BackoffElapses ==
    /\ rt.status = "waiting"
    /\ rt' = RetryOnTimer(rt)
    /\ UNCHANGED serviceVars

NextRetry == FnResolves \/ FnRejects \/ BackoffElapses

SpecRetry == InitRetry /\ [][NextRetry]_vars

(* ------------------------------ properties ----------------------------- *)

\* The status an error carries, wherever it carries it.
StatusOf(error) ==
    IF error.response # NoStatus THEN error.response ELSE error.statusCode

\* A client error other than a rate limit.
IsClientError(error) ==
    StatusOf(error) >= 400 /\ StatusOf(error) < 500 /\ StatusOf(error) # 429

\* Number of requests to the token endpoint that are in flight.
TokenRequestsInFlight ==
    (IF att.pc = "token" THEN 1 ELSE 0)
        + Cardinality({h \in HealthIds : hc[h].pc = "token"})

\* C1: single-flight refresh: callers of getAccessToken that overlap while
\* the cache is empty share one token request, so at most one request to the
\* token endpoint is in flight at any time.
C1_SingleFlight == TokenRequestsInFlight <= 1

C3_SucceedsOnThirdDelivery ==
    /\ [](\A j \in JobIds :
            jobs[j].state = "Succeeded" =>
                jobs[j].deliveries = jobs[j].attemptsMade + 1)
    /\ [][\A j \in JobIds :
            /\ (/\ jobs[j].state = "InProgress"
                /\ att'.job = j
                /\ att'.pc = "failed"
                /\ jobs[j].attemptsMade + 1 < maxRetries)
                  => jobs'[j].state = "Queued"
            /\ (jobs[j].state = "InProgress" /\ att'.job = j /\ att'.pc = "done")
                  => jobs'[j].state = "Succeeded"
            /\ jobs[j].state = "Succeeded" => jobs'[j] = jobs[j]]_vars

C3_Witness ==
    \E j \in JobIds :
        /\ jobs[j].state = "Succeeded"
        /\ jobs[j].attemptsMade = 2
        /\ jobs[j].deliveries = 3

\* C4: with retries >= 1, fn is invoked between 1 and retries times; every
\* invocation but the last one failed and was followed by one wait, the
\* first wait being delay and each later one twice the one before; there is
\* no wait after the last permitted invocation; a normal return carries the
\* value fn resolved with; with retries 3 and delay 1000 an exhausted call
\* has waited 1000 then 2000.
C4_InvocationsAndWaits ==
    rt.retries >= 1 =>
        /\ rt.calls >= 1
        /\ rt.calls <= rt.retries
        /\ Len(rt.waits) = (IF rt.status = "waiting" THEN rt.calls
                            ELSE rt.calls - 1)
        /\ \A k \in 1 .. Len(rt.waits) :
              rt.waits[k] = (IF k = 1 THEN rt.delay ELSE 2 * rt.waits[k - 1])
        /\ rt.status = "waiting" => rt.calls < rt.retries
        /\ rt.status = "returned" => rt.result = "value"
        /\ (/\ rt.retries = 3
            /\ rt.delay = 1000
            /\ rt.status = "thrown"
            /\ rt.calls = 3) => rt.waits = <<1000, 2000>>

C4_Witness ==
    /\ rt.retries = 5
    /\ rt.delay = 1000
    /\ rt.status = "returned"
    /\ rt.waits = <<1000, 2000, 4000>>

\* C5: a failure carrying a 4xx status other than 429 is never retried: the
\* retrier is neither waiting nor calling fn again after catching one.
C5_ClientErrorAborts ==
    IsClientError(rt.error) => rt.status \notin {"waiting", "calling"}

\* C6: a failure that is not a 4xx other than 429, caught while attempts
\* remain, is followed by a backoff wait, and the wait by a new invocation
\* of fn.
C6_OtherFailuresRetried ==
    /\ [][(/\ rt.status = "calling"
           /\ rt'.status \in {"waiting", "thrown"}
           /\ ~IsClientError(rt'.error)
           /\ rt.calls < rt.retries)
            => /\ rt'.status = "waiting"
               /\ Len(rt'.waits) = Len(rt.waits) + 1
               /\ rt'.calls = rt.calls]_vars
    /\ [][rt.status = "waiting"
            => /\ rt'.status = "calling"
               /\ rt'.calls = rt.calls + 1]_vars

C6_Witness ==
    /\ rt.status = "calling"
    /\ rt.calls = 3
    /\ rt.error.response = 429

\* C7: when the last permitted invocation fails the retrier throws, and the
\* error it throws is the one that invocation threw.
C7_LastErrorSurfaced ==
    (rt.retries >= 1 /\ rt.calls = rt.retries) =>
        /\ rt.status \in {"calling", "returned", "thrown"}
        /\ rt.status = "returned" => rt.result = "value"
        /\ rt.status = "thrown" => rt.error.seq = rt.retries

C7_Witness ==
    /\ rt.retries = 3
    /\ rt.calls = 3
    /\ rt.status = "thrown"
    /\ ~IsClientError(rt.error)

\* C8: once a listing has returned a non-empty list the attempt has left
\* the loop: it is at the transcript fetch or later, the listing that
\* returned it was the last one, and no poll wait followed it.
C8_FirstNonEmptyListing ==
    Len(att.transcripts) > 0 =>
        /\ att.step \in {"Fetch", "Generate", "Post"}
        /\ att.pc # "pollWait"
        /\ "Fetch" \in att.ran
        /\ att.listings = att.retryCount + 1
        /\ Len(att.pollWaits) = att.retryCount

C8_Witness ==
    /\ Len(att.transcripts) > 0
    /\ att.listings = 10
    /\ att.step = "Fetch"

C10_PollBudget ==
    /\ att.listings <= 10
    /\ att.retryCount = 10 =>
          /\ att.pc \in {"pollWait", "failed"}
          /\ att.pc = "failed" =>
                att.error =
                    PlainError("No transcripts available after maximum retries")
    /\ att.error = PlainError("No transcripts available after maximum retries")
          => /\ att.pc = "failed"
             /\ att.listings = 10
             /\ att.retryCount = 10
             /\ att.ran \cap {"Fetch", "Generate", "Format", "Post"} = {}

C10_Witness ==
    /\ att.pc = "failed"
    /\ att.error = PlainError("No transcripts available after maximum retries")

\* The steps of processMeetingJob in the order the code runs them.
StepOrder == <<"Meeting", "List", "Fetch", "Generate", "Format", "Post">>

\* The steps that come before step s.
StepsBefore(s) ==
    {StepOrder[k] : k \in {i \in 1 .. Len(StepOrder) :
                               \E n \in (i + 1) .. Len(StepOrder) : StepOrder[n] = s}}

\* C11: within one processing attempt the steps run in the order meeting
\* fetch, transcript wait, transcript fetch, generation, formatting, delivery:
\* a step has run only if every step before it has run; the transcript is
\* fetched only after a listing returned a non-empty list, generation runs
\* only with fetched content, and the Teams post runs only after generation
\* succeeded in the same attempt.
C11_StepsInOrder ==
    /\ \A s \in att.ran : StepsBefore(s) \subseteq att.ran
    /\ att.step \in att.ran \cup {"none"}
    /\ StepsBefore(att.step) \subseteq att.ran
    /\ "List" \in att.ran => att.meeting = "meeting"
    /\ "Fetch" \in att.ran => att.listings >= 1 /\ Len(att.transcripts) > 0
    /\ "Generate" \in att.ran => att.transcriptContent = "vtt"
    /\ "Format" \in att.ran => att.minutes = "minutes"
    /\ "Post" \in att.ran => att.minutes = "minutes"
    /\ att.pc = "done" => att.ran = {StepOrder[k] : k \in 1 .. Len(StepOrder)}

\* An attempt has posted the minutes after a listing that came back empty
\* at first.
C11_Witness ==
    /\ att.pc = "done"
    /\ att.listings >= 2
    /\ "Post" \in att.ran

\* C12: a failure in any step of the processor (token acquisition, meeting
\* fetch, transcript wait, transcript fetch, generation, delivery) aborts the
\* attempt: the step that failed is the last one that ran, the error reaches
\* the queue, which counts the attempt and either re-queues the job or marks
\* it failed, and the aborted attempt runs nothing more.
C12_FailureAborts ==
    [][/\ (att.pc # "failed" /\ att'.pc = "failed") =>
            /\ att'.error # NoError
            /\ att'.ran = StepsBefore(att'.step) \cup {att'.step}
            /\ active = att.job /\ active' = NoJob
            /\ jobs'[att.job].attemptsMade = jobs[att.job].attemptsMade + 1
            /\ jobs'[att.job].state =
                  IF jobs[att.job].attemptsMade + 1 < maxRetries
                  THEN "Queued" ELSE "Failed"
       /\ (att.pc = "failed" /\ att' # att) =>
            /\ att'.ran = {"Meeting"}
            /\ jobs'[att'.job].deliveries = jobs[att'.job].deliveries + 1
      ]_vars

\* The generation step failed: the attempt is over without a Teams post and
\* the job is queued for another delivery.
C12_Witness ==
    /\ att.pc = "failed"
    /\ att.step = "Generate"
    /\ "Post" \notin att.ran
    /\ att.job # NoJob
    /\ jobs[att.job].state = "Queued"
    /\ jobs[att.job].attemptsMade = 1

\* C13: totalProcessed = totalSuccess + totalFailed in every reachable state
\* (each failed attempt counts in totalFailed and in totalProcessed).
C13_ProcessedIsSuccessPlusFailed ==
    metrics.totalProcessed = metrics.totalSuccess + metrics.totalFailed

\* The jobs that have been processed successfully.
Succeeded == {j \in JobIds : jobs[j].state = "Succeeded"}

RECURSIVE SumOfTimes(_)
SumOfTimes(S) ==
    IF S = {} THEN 0
    ELSE LET j == CHOOSE x \in S : TRUE
         IN ProcessingTimeOf(j) + SumOfTimes(S \ {j})

ServeUntil(token) ==
    token.issuedAt
        + (IF token.expires_in = NoExpiresIn THEN DefaultExpiresIn
           ELSE token.expires_in)
        - ExpiryBuffer

\* C15: after a refresh at t0 that returned expires_in = E, a getAccessToken
\* call made before t0 + E - 300 s returns the cached token without a
\* request to the token endpoint, and a call made at or after t0 + E - 300 s
\* sends exactly one request.
C15_CachedUntilBuffer ==
    (tc.pc # "idle" /\ tc.prior # Unissued /\ tc.prior.expires_in # NoExpiresIn) =>
        /\ tc.at < ServeUntil(tc.prior) =>
              tc.cached /\ tc.requests = 0 /\ tc.result = tc.prior
        /\ tc.at >= ServeUntil(tc.prior) =>
              ~tc.cached /\ tc.requests = 1

\* C16: whatever expires_in the endpoint returned, getAccessToken never
\* returns a cached token later than the token's issue time plus its
\* lifetime minus 300 s.
C16_NeverServedInsideBuffer ==
    (tc.pc = "returned" /\ tc.cached) => tc.at <= ServeUntil(tc.result)

\* The positions of the notifications of a batch that have all of meetingId,
\* chatId and userId, in batch order.
ValidPositions(batch) ==
    SelectSeq([k \in 1 .. Len(batch) |-> k],
              LAMBDA k : HasRequiredFields(batch[k]))

\* The batch positions of the notifications request w has enqueued a job for,
\* in the order of the jobs' ids.
EnqueuedPositions(w) ==
    [n \in 1 .. Len(wh[w].added) |-> jobs[wh[w].added[n]].data.from[2]]

\* The jobs in the queue that were made from a notification of request w.
JobsOf(w) ==
    {j \in JobIds : jobs[j].state # "Absent" /\ jobs[j].data.from[1] = w}

C19_WrongClientStateRejected ==
    \A w \in WebhookIds : \A k \in 1 .. Len(wh[w].batch) :
        wh[w].batch[k].clientState # WebhookSecret =>
            /\ wh[w].status # 202
            /\ \A j \in JobsOf(w) : jobs[j].data.from[2] # k

\* C20 as stated: when the handler has answered, the queue holds exactly one
\* job for every complete notification of the batch, in batch order, and
\* none for the others.
C20_OneJobPerCompleteNotification ==
    \A w \in WebhookIds :
        wh[w].pc = "responded" =>
            EnqueuedPositions(w) = ValidPositions(wh[w].batch)

\* C20, amended: the jobs a request has enqueued are, in the order of their
\* ids, the jobs of the first complete notifications of its batch in batch
\* order, one each and none for a notification with a value missing; they
\* are the jobs of all the complete notifications when the request has been
\* answered with 202, that is when no meetingQueue.add was rejected.  Each
\* job carries the values of its notification.
C20_OneJobPerCompleteNotificationUnlessAddFails ==
    \A w \in WebhookIds :
        /\ Len(EnqueuedPositions(w)) <= Len(ValidPositions(wh[w].batch))
        /\ EnqueuedPositions(w) =
              SubSeq(ValidPositions(wh[w].batch), 1, Len(wh[w].added))
        /\ JobsOf(w) = {wh[w].added[n] : n \in 1 .. Len(wh[w].added)}
        /\ \A n \in 1 .. Len(wh[w].added) - 1 :
              wh[w].added[n] < wh[w].added[n + 1]
        /\ \A j \in JobsOf(w) :
              LET n == wh[w].batch[jobs[j].data.from[2]] IN
              /\ jobs[j].data.meetingId = n.meetingId
              /\ jobs[j].data.chatId = n.chatId
              /\ jobs[j].data.userId = n.userId
        /\ wh[w].status = 202 =>
              EnqueuedPositions(w) = ValidPositions(wh[w].batch)

\* A batch whose first notification lacks a value and whose second is
\* complete: the first was skipped and the second enqueued.
C20_Witness ==
    \E w \in WebhookIds :
        /\ wh[w].status = 202
        /\ Len(wh[w].batch) = 2
        /\ ~HasRequiredFields(wh[w].batch[1])
        /\ EnqueuedPositions(w) = <<2>>

C22_RetryLevels ==
    [][/\ \A j \in JobIds :
            jobs'[j].deliveries = jobs[j].deliveries + 1 =>
                /\ att'.job = j
                /\ att'.step = "Meeting" /\ att'.ran = {"Meeting"}
                /\ att'.retryCount = 0 /\ att'.listings = 0
                /\ att'.pollWaits = <<>> /\ att'.transcripts = <<>>
                /\ att'.meeting = Undefined
                /\ att'.transcriptContent = Undefined
                /\ att'.minutes = Undefined
                /\ att'.lookups = 1
                /\ att'.error = NoError
       /\ (rt.status = "waiting" /\ rt' # rt) =>
            /\ att' = att
            /\ rt'.calls = rt.calls + 1
            /\ rt'.status = "calling"
      ]_vars

\* The second delivery of a job has reached the transcript listing with its
\* poll counter at 0, and a call-level retry of that listing is waiting.
C22_Witness ==
    /\ att.job # NoJob
    /\ att.pc = "call"
    /\ jobs[att.job].deliveries = 2
    /\ att.step = "List"
    /\ att.retryCount = 0
    /\ rt.status = "waiting"

\* C23: every external call of an attempt (meeting fetch, transcript
\* listing, transcript fetch, generation, Teams post) runs inside the
\* retrier: when more than one call-level attempt is configured, an attempt
\* that failed because such a call failed has seen the retrier give up on
\* it, after a second invocation at least unless the error was a client
\* error.
C23_EveryCallWrapped ==
    (/\ att.pc = "failed"
     /\ att.error \notin {TokenError, NoTranscriptsError}
     /\ maxRetries >= 2) =>
        /\ rt.status = "thrown"
        /\ rt.calls >= 2 \/ IsClientError(rt.error)

\* C24: one job attempt makes at most one getAccessToken call, however many
\* polls, call-level retries and steps it goes through.
C24_OneLookupPerAttempt == att.lookups <= 1

\* C25: while an attempt is suspended (on a network call, in a backoff wait
\* or in a poll wait) the worker can start another queued job, so that two
\* jobs are in progress at the same time.
C25_WorkerTakesAnotherJob ==
    \A j \in JobIds :
        (/\ active # NoJob
         /\ att.pc \in {"token", "call", "pollWait", "generate"}
         /\ jobs[j].state = "Queued") => ENABLED Deliver(j)

\* C26: a correlation id identifies one job: two distinct jobs in the queue,
\* two jobs of the same batch included, never carry the same correlationId.
C26_CorrelationIdPerJob ==
    \A j, k \in JobIds :
        (/\ j # k
         /\ jobs[j].state # "Absent"
         /\ jobs[k].state # "Absent") =>
            jobs[j].data.correlationId # jobs[k].data.correlationId

\* C27: the payload of a job never changes once it is enqueued, and every
\* delivery of the job, re-deliveries included, runs with that payload: the
\* processor destructures the same meetingId, chatId, userId and
\* correlationId and passes no other correlationId to any call it makes.
C27_PayloadImmutable ==
    [][/\ \A j \in JobIds :
            jobs[j].state # "Absent" => jobs'[j].data = jobs[j].data
       /\ active' # NoJob =>
            /\ att'.data = jobs'[active'].data
            /\ att'.passed = {jobs'[active'].data.correlationId}]_vars

\* A re-delivered job has reached the delivery of the minutes.
C27_Witness ==
    /\ active # NoJob
    /\ jobs[active].deliveries >= 2
    /\ att.step = "Post"
    /\ att.data = jobs[active].data
    /\ att.passed = {jobs[active].data.correlationId}

C28_NoJobLost ==
    [][\A j \in JobIds :
        /\ jobs[j].state # "Absent" => jobs'[j].state # "Absent"
        /\ jobs[j].state = "Queued" =>
                jobs'[j].state \in {"Queued", "InProgress"}
        /\ (jobs[j].state = "InProgress" /\ jobs'[j].state # "InProgress") =>
                \/ active = j /\ proc # "crashed" /\ proc' = proc
                \/ jobs'[j].state = "Queued"]_vars

\* C28 (amended): the same, but a job whose worker died during more than
\* MaxStalledCount of its deliveries is marked Failed by the queue without
\* another delivery.  A shutdown on SIGTERM or SIGINT waits for the attempt
\* in progress, and neither a shutdown nor a crash changes the queue.
C28_NoJobLostUnlessStalledTwice ==
    [][/\ \A j \in JobIds :
            /\ jobs[j].state # "Absent" => jobs'[j].state # "Absent"
            /\ jobs[j].state = "Queued" =>
                    jobs'[j].state \in {"Queued", "InProgress"}
            /\ (jobs[j].state = "InProgress"
                    /\ jobs'[j].state # "InProgress") =>
                    \/ active = j /\ proc # "crashed" /\ proc' = proc
                    \/ jobs'[j].state = "Queued"
                    \/ /\ jobs'[j].state = "Failed"
                       /\ jobs'[j].stalled > MaxStalledCount
       /\ (proc # "exited" /\ proc' = "exited") => active = NoJob
       /\ proc' # proc => jobs' = jobs]_vars

\* A job whose worker died is being processed again after a restart.
C28_Witness ==
    \E j \in JobIds :
        /\ proc = "running"
        /\ active = j
        /\ jobs[j].state = "InProgress"
        /\ jobs[j].stalled = 1
        /\ jobs[j].deliveries >= 2

\* C29: a job becomes Failed only in a step that increments totalFailed,
\* and while the process runs the metrics change only when an attempt of
\* processMeetingJob ends.
C29_FailedIsCounted ==
    [][/\ \A j \in JobIds :
            (jobs[j].state # "Failed" /\ jobs'[j].state = "Failed") =>
                metrics'.totalFailed = metrics.totalFailed + 1
       /\ (proc' = proc /\ metrics' # metrics) =>
            /\ active # NoJob
            /\ active' = NoJob
            /\ att'.pc \in {"done", "failed"}]_vars

\* C31: the limit of the queue's deliveries and the limit of the retrier's
\* calls are separate parameters: when MAX_RETRIES is set to another value
\* than its default, at most one of the two limits leaves the default.
C31_LimitsIndependent ==
    (active # NoJob /\ rt.status # "none") =>
        \/ QueueAttempts = DefaultMaxRetries
        \/ rt.retries = DefaultMaxRetries

\* C32: the poll counter counts the listings that returned an empty list and
\* nothing else: a listing that errors leaves it alone, an attempt that ends
\* in the listing step on an error of the call fails with that error, and
\* the not-ready error follows 10 listings that all returned empty.
C32_PollCountsEmptyListings ==
    [][/\ att'.retryCount =
            att'.listings - (IF Len(att'.transcripts) > 0 THEN 1 ELSE 0)
       /\ (active # NoJob /\ att'.retryCount # att.retryCount) =>
            /\ att'.retryCount = att.retryCount + 1
            /\ att'.listings = att.listings + 1
            /\ att'.transcripts = <<>>
            /\ rt'.status = "returned"
       /\ (att.pc = "call" /\ att.step = "List" /\ att'.pc = "failed") =>
            /\ att'.error \in GraphErrors(rt.calls)
            /\ att'.error = rt'.error
            /\ rt'.status = "thrown"
       /\ (att'.pc = "failed" /\ att'.error = NoTranscriptsError) =>
            /\ att'.listings = maxTranscriptRetries
            /\ att'.retryCount = maxTranscriptRetries
            /\ att'.transcripts = <<>>]_vars

\* A listing errored and was called again after some polls, and the poll
\* counter still equals the number of empty listings.
C32_Witness ==
    /\ att.pc = "call"
    /\ att.step = "List"
    /\ rt.status = "calling"
    /\ rt.calls >= 2
    /\ att.retryCount >= 1
    /\ att.retryCount = att.listings

\* The number of attempts of the jobs in S that ended in failure.
RECURSIVE FailedAttempts(_)
FailedAttempts(S) ==
    IF S = {} THEN 0
    ELSE LET j == CHOOSE k \in S : TRUE
         IN  jobs[j].attemptsMade + FailedAttempts(S \ {j})

C34_AtMostOnePost ==
    [][\A j \in JobIds :
        /\ jobs'[j].posts <= 1
        /\ jobs'[j].posts = 1 <=> jobs'[j].state = "Succeeded"
        /\ jobs[j].state = "Succeeded" => jobs'[j] = jobs[j]
        /\ jobs'[j].attemptsMade <= maxRetries
        /\ jobs'[j].posts # jobs[j].posts =>
                /\ att.step = "Post"
                /\ att'.pc = "done"
                /\ rt'.status = "returned"
                /\ metrics'.totalSuccess = metrics.totalSuccess + 1
                /\ metrics'.totalFailed = metrics.totalFailed]_vars

\* A job was posted on a re-delivery after failed attempts.
C34_Witness ==
    \E j \in JobIds :
        /\ jobs[j].state = "Succeeded"
        /\ jobs[j].posts = 1
        /\ jobs[j].attemptsMade >= 1
        /\ jobs[j].deliveries = jobs[j].attemptsMade + 1

\* C35: whatever the retries argument, a retryWithBackoff call that is over
\* has invoked fn at least once, and it has returned the value of an
\* invocation of fn that succeeded or thrown an error that fn threw.
C35_InvokedAtLeastOnce ==
    rt.status \in {"returned", "thrown"} =>
        /\ rt.calls >= 1
        /\ rt.status = "returned" => rt.result = "value"
        /\ rt.status = "thrown" => rt.error \in ErrorsOf(rt.error.seq)

C37_EarlierJobsStay ==
    \A w \in WebhookIds :
        wh[w].status = 500 =>
            /\ wh[w].pc = "responded"
            /\ HasRequiredFields(wh[w].batch[wh[w].i])
            /\ EnqueuedPositions(w) =
                  SelectSeq(ValidPositions(wh[w].batch),
                            LAMBDA k : k < wh[w].i)
            /\ JobsOf(w) = {wh[w].added[n] : n \in 1 .. Len(wh[w].added)}
            /\ \A j \in JobsOf(w) :
                  /\ jobs[j].state = "Queued"
                  /\ ENABLED Deliver(j)

\* A request was answered with 500 after a job of its batch was enqueued.
C37_Witness ==
    \E w \in WebhookIds :
        /\ wh[w].status = 500
        /\ Len(wh[w].added) = 1
        /\ wh[w].i = 2
        /\ jobs[wh[w].added[1]].state = "Queued"

====
